---- MODULE Spec2Model ----
(***************************************************************************)
(* Fields of the "structures" package (structures/fields.py).              *)
(*                                                                         *)
(* A Field holds a coercion function `func` and an optional default.  A    *)
(* structure class gets one FieldDescriptor per declared field; instances  *)
(* keep their values in their own storage.  Python values are modelled as  *)
(* tagged records [t |-> type, v |-> payload]:                             *)
(*   int      v = the integer            bool   v = 0 or 1                 *)
(*   float    v = the value in tenths    none   v = 0                      *)
(*   decimal  v = <<exact, tenths>>      str    v = sequence of code points*)
(*   bytes    v = sequence of bytes                                        *)
(*   list, tuple  v = sequence of elements                                 *)
(*   set, frozenset  v = set of elements                                   *)
(*   dict     v = sequence of <<key, value>> in insertion order            *)
(* Containers are objects on a heap and are passed around as references    *)
(* [t |-> "ref", v |-> id]; their elements are immutable values held       *)
(* inline.  Scalars are held inline.  Identity is followed for the objects *)
(* the default machinery handles (a declared default, a field's stored     *)
(* default, what a read of an unset attribute returns); a value stored by  *)
(* a write is kept by content.                                             *)
(***************************************************************************)
EXTENDS Integers, Sequences, FiniteSets, TLC

VARIABLES
    struct,     \* the structure class's attribute table: name -> descriptor
    storage,    \* every instance's own storage: instance -> name -> value
    heap,       \* container objects by identity
    held,       \* identities of the objects the calling program holds
    decl,       \* per attribute: the default as it was declared
    ev          \* the last operation and its outcome

vars == <<struct, storage, heap, held, decl, ev>>

\* ------------------------------------------------------------- bounds
\* Number of container objects whose identity is followed.
MaxObjs == 4

\* ------------------------------------------------------------- values
Val(t, v) == [t |-> t, v |-> v]

NoDefault == Val("NoDefault", 0)
Unset == Val("unset", 0)
Free == Val("free", 0)
Absent == Val("absent", 0)
None == Val("none", 0)
Err(name) == Val("err", name)
Ref(id) == Val("ref", id)

IntV(n) == Val("int", n)
BoolV(b) == Val("bool", IF b THEN 1 ELSE 0)
FloatV(tenths) == Val("float", tenths)
StrV(cs) == Val("str", cs)
BytesV(bs) == Val("bytes", bs)
\* exact = 1: the decimal is exactly tenths/10; exact = 0: it is the binary
\* expansion of the double nearest to tenths/10.
DecimalV(exact, tenths) == Val("decimal", <<exact, tenths>>)

ContainerTypes == {"list", "tuple", "set", "frozenset", "dict"}
MutableTypes == {"list", "set", "dict"}

IsErr(r) == r.t = "err"
IsRef(x) == x.t = "ref"
IsContent(x) == x.t \in ContainerTypes

\* What a value denotes: the object a reference points to, or the value itself.
Deref(x, h) == IF IsRef(x) THEN h[x.v] ELSE x

\* ------------------------------------------------ the built-in functions
SeqToSet(s) == {s[i] : i \in DOMAIN s}

RECURSIVE SetToSeq(_)
SetToSeq(S) ==
    IF S = {} THEN <<>>
    ELSE LET e == CHOOSE x \in S : TRUE IN <<e>> \o SetToSeq(S \ {e})

IsDigits(cs) == Len(cs) > 0 /\ \A i \in DOMAIN cs : cs[i] \in 48..57

RECURSIVE ParseDigits(_)
ParseDigits(cs) ==
    IF Len(cs) = 0 THEN 0
    ELSE 10 * ParseDigits(SubSeq(cs, 1, Len(cs) - 1)) + (cs[Len(cs)] - 48)

\* Rounding toward zero of a value given in tenths.
Trunc(tenths) == IF tenths >= 0 THEN tenths \div 10 ELSE -((-tenths) \div 10)

Truthy(c) ==
    CASE c.t \in {"int", "bool", "float"} -> c.v # 0
      [] c.t = "decimal" -> c.v[2] # 0
      [] c.t = "none" -> FALSE
      [] c.t \in {"str", "bytes", "list", "tuple", "dict"} -> Len(c.v) > 0
      [] c.t \in {"set", "frozenset"} -> c.v # {}

IsIterable(c) == c.t \in {"str", "bytes"} \cup ContainerTypes

\* The elements iter(c) yields, in order.
Iter(c) ==
    CASE c.t = "str" -> [i \in DOMAIN c.v |-> StrV(<<c.v[i]>>)]
      [] c.t = "bytes" -> [i \in DOMAIN c.v |-> IntV(c.v[i])]
      [] c.t \in {"list", "tuple"} -> c.v
      [] c.t = "dict" -> [i \in DOMAIN c.v |-> c.v[i][1]]
      [] c.t \in {"set", "frozenset"} -> SetToSeq(c.v)

\* Mutant: int() that converts numbers only and parses no text.
py_int_numbers_only(c) ==
    CASE c.t = "int" -> c
      [] c.t = "bool" -> IntV(c.v)
      [] c.t = "float" -> IntV(Trunc(c.v))
      [] OTHER -> Err("TypeError")

\* int(x)
py_int(c) ==
    CASE c.t = "int" -> c
      [] c.t = "bool" -> IntV(c.v)
      [] c.t = "float" -> IntV(Trunc(c.v))
      [] c.t = "decimal" -> IntV(Trunc(c.v[2]))
      [] c.t \in {"str", "bytes"} ->
            IF IsDigits(c.v) THEN IntV(ParseDigits(c.v)) ELSE Err("ValueError")
      [] OTHER -> Err("TypeError")

\* float(x)
py_float(c) ==
    CASE c.t \in {"int", "bool"} -> FloatV(10 * c.v)
      [] c.t = "float" -> c
      [] c.t = "decimal" -> FloatV(c.v[2])
      [] c.t \in {"str", "bytes"} ->
            IF IsDigits(c.v) THEN FloatV(10 * ParseDigits(c.v)) ELSE Err("ValueError")
      [] OTHER -> Err("TypeError")

\* decimal.Decimal(x)
py_Decimal(c) ==
    CASE c.t \in {"int", "bool"} -> DecimalV(1, 10 * c.v)
      [] c.t = "float" -> DecimalV(IF c.v % 5 = 0 THEN 1 ELSE 0, c.v)
      [] c.t = "decimal" -> c
      [] c.t = "str" ->
            IF IsDigits(c.v) THEN DecimalV(1, 10 * ParseDigits(c.v))
            ELSE Err("InvalidOperation")
      [] c.t \in {"list", "tuple"} -> Err("ValueError")
      [] OTHER -> Err("TypeError")

\* bool(x)
py_bool(c) == BoolV(Truthy(c))

\* Mutant: text is encoded implicitly.
bytes_of_str_encoded(c) == BytesV(c.v)

\* bytes(x) with a text argument: no encoding is given.
bytes_of_str(c) == Err("TypeError")

\* bytes(x)
py_bytes(c) ==
    CASE c.t = "bytes" -> c
      [] c.t \in {"int", "bool"} ->
            IF c.v < 0 THEN Err("ValueError") ELSE BytesV([i \in 1..c.v |-> 0])
      [] c.t = "str" -> bytes_of_str(c)
      [] c.t \in ContainerTypes ->
            LET es == Iter(c) IN
            IF \E i \in DOMAIN es : es[i].t # "int" THEN Err("TypeError")
            ELSE IF \E i \in DOMAIN es : es[i].v \notin 0..255 THEN Err("ValueError")
            ELSE BytesV([i \in DOMAIN es |-> es[i].v])
      [] OTHER -> Err("TypeError")

RECURSIVE Digits(_)
Digits(n) == IF n < 10 THEN <<48 + n>> ELSE Digits(n \div 10) \o <<48 + (n % 10)>>

IntStr(n) == IF n < 0 THEN <<45>> \o Digits(-n) ELSE Digits(n)

FloatStr(tenths) ==
    LET a == IF tenths < 0 THEN -tenths ELSE tenths IN
    (IF tenths < 0 THEN <<45>> ELSE <<>>) \o Digits(a \div 10) \o <<46>> \o Digits(a % 10)

RECURSIVE Join(_)
Join(parts) ==
    IF Len(parts) = 0 THEN <<>>
    ELSE IF Len(parts) = 1 THEN parts[1]
    ELSE parts[1] \o <<44, 32>> \o Join(Tail(parts))

\* repr(x)
RECURSIVE Repr(_)
Repr(c) ==
    CASE c.t = "int" -> IntStr(c.v)
      [] c.t = "float" -> FloatStr(c.v)
      [] c.t = "bool" -> IF c.v = 1 THEN <<84, 114, 117, 101>> ELSE <<70, 97, 108, 115, 101>>
      [] c.t = "none" -> <<78, 111, 110, 101>>
      [] c.t = "str" -> <<39>> \o c.v \o <<39>>
      [] c.t = "list" -> <<91>> \o Join([i \in DOMAIN c.v |-> Repr(c.v[i])]) \o <<93>>
      [] c.t = "tuple" ->
            <<40>> \o Join([i \in DOMAIN c.v |-> Repr(c.v[i])])
                 \o (IF Len(c.v) = 1 THEN <<44>> ELSE <<>>) \o <<41>>
      [] c.t = "dict" ->
            <<123>> \o Join([i \in DOMAIN c.v |->
                                Repr(c.v[i][1]) \o <<58, 32>> \o Repr(c.v[i][2])])
                  \o <<125>>

\* str(x)
py_str(c) == IF c.t = "str" THEN c ELSE StrV(Repr(c))

\* str(x, enc) for the codecs that agree with ASCII below 128.
py_decode(c, enc) ==
    IF c.t # "bytes" THEN Err("TypeError")
    ELSE IF \E i \in DOMAIN c.v : c.v[i] >= 128 THEN Err("UnicodeDecodeError")
    ELSE StrV(c.v)

String_func(c, enc) ==
    IF c.t = "str" THEN c
    ELSE LET r == py_decode(c, enc) IN
         IF IsErr(r) /\ r.v = "TypeError" THEN py_str(c) ELSE r

\* list(x), tuple(x)
py_seq(t, c) == IF IsIterable(c) THEN Val(t, Iter(c)) ELSE Err("TypeError")

\* set(x), frozenset(x)
py_setof(t, c) == IF IsIterable(c) THEN Val(t, SeqToSet(Iter(c))) ELSE Err("TypeError")

\* d[k] = v on a dict's items
DictPut(items, k, v) ==
    IF \E i \in DOMAIN items : items[i][1] = k
    THEN [i \in DOMAIN items |-> IF items[i][1] = k THEN <<k, v>> ELSE items[i]]
    ELSE Append(items, <<k, v>>)

\* dict(iterable): every element must be a sequence of length two.
RECURSIVE DictFromPairs(_, _)
DictFromPairs(es, items) ==
    IF Len(es) = 0 THEN Val("dict", items)
    ELSE LET e == Head(es) IN
         IF ~IsIterable(e) THEN Err("TypeError")
         ELSE IF Len(Iter(e)) # 2 THEN Err("ValueError")
         ELSE DictFromPairs(Tail(es), DictPut(items, Iter(e)[1], Iter(e)[2]))

\* dict(x)
py_dict(c) ==
    CASE c.t = "dict" -> c
      [] IsIterable(c) /\ c.t # "dict" -> DictFromPairs(Iter(c), <<>>)
      [] OTHER -> Err("TypeError")

\* ------------------------------------------------------------- fields
ContainerKinds == {"List", "Tuple", "Set", "FrozenSet", "Dict"}
SimpleKinds == {"Integer", "Float", "Decimal", "Boolean", "Bytes", "Binary"}
Kinds == {"Field", "String"} \cup SimpleKinds \cup ContainerKinds

Fn(name, enc) == [name |-> name, enc |-> enc]

\* The class attribute `func` of every field kind.
ClassFunc(kind) ==
    CASE kind = "Integer" -> Fn("int", "")
      [] kind = "Float" -> Fn("float", "")
      [] kind = "Decimal" -> Fn("Decimal", "")
      [] kind = "Boolean" -> Fn("bool", "")
      [] kind = "Bytes" -> Fn("bytes", "")
      [] kind = "Binary" -> Fn("Binary.func", "")
      [] kind = "List" -> Fn("list", "")
      [] kind = "Tuple" -> Fn("tuple", "")
      [] kind = "Set" -> Fn("set", "")
      [] kind = "FrozenSet" -> Fn("frozenset", "")
      [] kind = "Dict" -> Fn("dict", "")

\* The functions a program hands to the generic Field(func, default).
UserFuncs == {Fn("lambda x: x", ""), Fn("int", "")}

\* fn(x): an error, an inline value, the reference x itself (the function
\* returned its argument), or the content of a new container object.
Call(fn, x, h) ==
    LET c == Deref(x, h) IN
    CASE fn.name = "lambda x: x" -> x
      [] fn.name = "int" -> py_int(c)
      [] fn.name = "float" -> py_float(c)
      [] fn.name = "Decimal" -> py_Decimal(c)
      [] fn.name = "bool" -> py_bool(c)
      [] fn.name \in {"bytes", "Binary.func"} -> py_bytes(c)
      [] fn.name = "String.func" -> String_func(c, fn.enc)
      [] fn.name = "list" -> py_seq("list", c)
      [] fn.name = "set" -> py_setof("set", c)
      [] fn.name = "dict" -> py_dict(c)
         \* tuple(x) and frozenset(x) return x itself when x is one already
      [] fn.name = "tuple" -> IF c.t = "tuple" THEN x ELSE py_seq("tuple", c)
      [] fn.name = "frozenset" -> IF c.t = "frozenset" THEN x ELSE py_setof("frozenset", c)

\* The function each kind's __init__ passes to Field.__init__.
InitFunc(kind, userfn, enc) ==
    CASE kind = "Field" -> userfn
      [] kind = "String" -> Fn("String.func", enc)
      [] OTHER -> ClassFunc(kind)

\* The outcome of code that may call a field's function: the result r and the
\* number of calls of the function it took.
Outcome(r, calls) == [r |-> r, calls |-> calls]

\* Mutant: the default is stored as given, func is not called on it.
Field__init__raw(func, default, h) == Outcome(default, 0)

\* Mutant: a falsy default is taken for no default.
Field__init__truthy(func, default, h) ==
    IF default # NoDefault /\ Truthy(Deref(default, h))
    THEN Outcome(Call(func, default, h), 1)
    ELSE Outcome(NoDefault, 0)

\* Field.__init__: the value assigned to self.default, NoDefault when none is.
Field__init__(func, default, h) ==
    IF default # NoDefault THEN Outcome(Call(func, default, h), 1)
    ELSE Outcome(NoDefault, 0)

\* The Field object after __init__ has assigned `value` to self.default
\* (value = NoDefault: nothing was assigned, the class attributes show through).
\* StandartContainer's setter puts the assigned value in _default.
NewField(kind, func, value) ==
    [kind |-> kind, func |-> func,
     default |-> IF kind \in ContainerKinds THEN NoDefault ELSE value,
     _default |-> IF kind \in ContainerKinds THEN value ELSE NoDefault]

\* Mutant: the property hands out the stored object itself.
StandartContainer_default_shared(self, h) == Outcome(self._default, 0)

\* StandartContainer.default, the property.
StandartContainer_default(self, h) ==
    IF self._default # NoDefault THEN Outcome(Call(self.func, self._default, h), 1)
    ELSE Outcome(NoDefault, 0)

\* Mutant: every lookup of a default runs func on it again.
FieldDefault_recoerce(self, h) ==
    IF self.kind \in ContainerKinds THEN StandartContainer_default(self, h)
    ELSE IF self.default # NoDefault THEN Outcome(Call(self.func, self.default, h), 1)
    ELSE Outcome(NoDefault, 0)

\* field.default as an attribute lookup sees it.
FieldDefault(self, h) ==
    IF self.kind \in ContainerKinds THEN StandartContainer_default(self, h)
    ELSE Outcome(self.default, 0)

\* ------------------------------------------------- descriptors, the heap
FieldDescriptor(name, field) == [t |-> "descriptor", name |-> name, field |-> field]

\* Mutant: every descriptor is given the first attribute's name.
contribute_to_structure_one_name(self, structure, name) ==
    [structure EXCEPT ![name] = FieldDescriptor("a", self)]

\* Mutant: the descriptor is given the other attribute's name.
contribute_to_structure_other_name(self, structure, name) ==
    [structure EXCEPT ![name] =
        FieldDescriptor(IF name = "a" /\ "b" \in DOMAIN structure THEN "b" ELSE "a", self)]

\* Field.contribute_to_structure: setattr(structure, name, FieldDescriptor(name, self))
contribute_to_structure(self, structure, name) ==
    [structure EXCEPT ![name] = FieldDescriptor(name, self)]

ObjIds == 1..MaxObjs
FreeIds(h) == {id \in ObjIds : h[id] = Free}
NewId(h) == CHOOSE id \in FreeIds(h) : \A o \in FreeIds(h) : id <= o

\* A call's result as the caller receives it: new content becomes an object.
ValueOf(r, h) == IF IsContent(r) THEN Ref(NewId(h)) ELSE r
HeapWith(r, h) == IF IsContent(r) THEN [h EXCEPT ![NewId(h)] = r] ELSE h
Needs(r) == IF IsContent(r) THEN 1 ELSE 0

RefIds(S) == {x.v : x \in {y \in S : IsRef(y)}}

\* ------------------------------------------------------------- inputs
Insts == {"x", "y"}

\* The values a program declares as defaults and assigns.
Inputs ==
    { IntV(5), FloatV(52), None,
      StrV(<<49, 50>>), BytesV(<<120>>), BytesV(<<255>>),
      Val("list", <<IntV(1), IntV(2)>>),
      Val("tuple", <<IntV(1), IntV(2)>>),
      Val("dict", << <<IntV(1), IntV(2)>> >>) }

\* ------------------------------------------------------------- events
Event(op, inst, name, kind, func, arg, err, ret, ncalls) ==
    [op |-> op, inst |-> inst, name |-> name, kind |-> kind, func |-> func,
     arg |-> arg, err |-> err, ret |-> ret, ncalls |-> ncalls]

Declared(st) == {n \in DOMAIN st : st[n] # Absent}
Ready == Declared(struct) = DOMAIN struct

InitOver(attrs) ==
    /\ struct = [n \in attrs |-> Absent]
    /\ storage = [i \in Insts |-> [n \in attrs |-> Unset]]
    /\ heap = [id \in ObjIds |-> Free]
    /\ held = {}
    /\ decl = [n \in attrs |-> Absent]
    /\ ev = Event("start", "", "", "", Fn("", ""), Absent, "", Absent, 0)

\* ------------------------------------------------------------- actions
\* The class body constructs the field for attribute n and the structure's
\* construction installs it.  A constructor that raises ends the class
\* statement: no class comes to exist.
Declare(n, kind, userfn, d) ==
    /\ struct[n] = Absent
    /\ Cardinality(FreeIds(heap)) >= 2
    /\ LET dref == ValueOf(d, heap)
           h1 == HeapWith(d, heap)
           func == InitFunc(kind, userfn, "UTF-8")
           out == Field__init__(func, dref, h1)
       IN  IF IsErr(out.r)
           THEN /\ struct' = [m \in DOMAIN struct |-> Absent]
                /\ decl' = [m \in DOMAIN struct |-> Absent]
                /\ held' = {}
                /\ heap' = [id \in ObjIds |-> Free]
                /\ ev' = Event("declare", "", n, kind, func, d, out.r.v, Absent,
                               out.calls)
                /\ UNCHANGED storage
           ELSE LET field == NewField(kind, func, ValueOf(out.r, h1))
                IN  /\ struct' = contribute_to_structure(field, struct, n)
                    /\ decl' = [decl EXCEPT ![n] =
                                  [t |-> "decl", d |-> dref, c |-> d, calls |-> out.calls]]
                    /\ held' = held \cup RefIds({dref})
                    /\ heap' = HeapWith(out.r, h1)
                    /\ ev' = Event("declare", "", n, kind, func, d, "", Absent,
                                   out.calls)
                    /\ UNCHANGED storage

\* FieldDescriptor.__get__ on an instance.
Read(i, n) ==
    /\ Ready
    /\ LET desc == struct[n]
           cur == storage[i][desc.name]
           out == FieldDefault(desc.field, heap)
       IN  IF cur # Unset
           THEN /\ ev' = Event("read", i, n, desc.field.kind, desc.field.func, Absent, "", cur, 0)
                /\ UNCHANGED <<heap, held>>
           ELSE IF out.r = NoDefault \/ IsErr(out.r)
           THEN /\ ev' = Event("read", i, n, desc.field.kind, desc.field.func, Absent,
                               IF IsErr(out.r) THEN out.r.v ELSE "AttributeError",
                               Absent, out.calls)
                /\ UNCHANGED <<heap, held>>
           ELSE /\ Needs(out.r) <= Cardinality(FreeIds(heap))
                /\ heap' = HeapWith(out.r, heap)
                /\ held' = held \cup RefIds({ValueOf(out.r, heap)})
                /\ ev' = Event("read", i, n, desc.field.kind, desc.field.func, Absent, "",
                               ValueOf(out.r, heap), out.calls)
    /\ UNCHANGED <<struct, storage, decl>>

\* FieldDescriptor.__set__ on an instance.
Write(i, n, value) ==
    /\ Ready
    /\ LET desc == struct[n]
           r == Call(desc.field.func, value, heap)
       IN  IF IsErr(r)
           THEN /\ ev' = Event("write", i, n, desc.field.kind, desc.field.func, value, r.v, Absent, 1)
                /\ UNCHANGED storage
           ELSE /\ storage' = [storage EXCEPT ![i][desc.name] = r]
                /\ ev' = Event("write", i, n, desc.field.kind, desc.field.func, value, "", Absent, 1)
    /\ UNCHANGED <<struct, decl, held, heap>>

\* x.clear() on a list, a set or a dict
Cleared(c) == Val(c.t, IF c.t = "set" THEN {} ELSE <<>>)

\* The program changes, in place, an object it holds.
Mutate(id) ==
    /\ id \in held
    /\ heap[id].t \in MutableTypes
    /\ heap[id] # Cleared(heap[id])
    /\ heap' = [heap EXCEPT ![id] = Cleared(heap[id])]
    /\ ev' = Event("mutate", "", "", "", Fn("", ""), Ref(id), "", Absent, 0)
    /\ UNCHANGED <<struct, storage, decl, held>>

Next ==
    \/ \E n \in DOMAIN struct, kind \in Kinds, d \in Inputs \cup {NoDefault} :
          \E userfn \in IF kind = "Field" THEN UserFuncs ELSE {Fn("", "")} :
             Declare(n, kind, userfn, d)
    \/ \E i \in Insts, n \in DOMAIN struct : Read(i, n)
    \/ \E i \in Insts, n \in DOMAIN struct, value \in Inputs : Write(i, n, value)
    \/ \E id \in ObjIds : Mutate(id)

Init == InitOver({"a"})

Spec == Init /\ [][Next]_vars

\* A structure with two attributes, over fewer kinds and values.
FrameKinds == {"Integer", "List"}
FrameInputs == {IntV(5), StrV(<<97, 98>>), Val("list", <<IntV(1), IntV(2)>>)}

InitFrame == InitOver({"a", "b"})

NextFrame ==
    \/ \E n \in DOMAIN struct, kind \in FrameKinds, d \in FrameInputs \cup {NoDefault} :
          Declare(n, kind, Fn("", ""), d)
    \/ \E i \in Insts, n \in DOMAIN struct : Read(i, n)
    \/ \E i \in Insts, n \in DOMAIN struct, value \in FrameInputs : Write(i, n, value)
    \/ \E id \in ObjIds : Mutate(id)

SpecFrame == InitFrame /\ [][NextFrame]_vars

\* ------------------------------------------------- what the claims speak of
FieldOf(n) == struct[n].field

HasDefault(n) == struct[n] # Absent /\ decl[n].c # NoDefault

ContainerAttrs == {n \in Declared(struct) : FieldOf(n).kind \in ContainerKinds}
ScalarAttrs == {n \in Declared(struct) : FieldOf(n).kind \notin ContainerKinds}

\* The heap with the declared default of n as it was when it was declared.
HeapAtDeclaration(n) ==
    IF IsRef(decl[n].d) THEN [heap EXCEPT ![decl[n].d.v] = decl[n].c] ELSE heap

\* coerce(d) for the default d that attribute n was declared with.
CoercedDefault(n) == Call(FieldOf(n).func, decl[n].d, HeapAtDeclaration(n))

\* The last operation was a read of an attribute with no stored value.
UnsetRead == ev.op = "read" /\ storage[ev.inst][struct[ev.name].name] = Unset
UnsetContainerRead == UnsetRead /\ ev.kind \in ContainerKinds /\ ev.err = ""
UnsetScalarRead == UnsetRead /\ ev.kind \notin ContainerKinds

\* What a read of attribute n on instance i would give: the content, or the error.
Reading(i, n) ==
    LET cur == storage[i][struct[n].name]
        out == FieldDefault(FieldOf(n), heap)
    IN  IF cur # Unset THEN cur
        ELSE IF out.r = NoDefault THEN Err("AttributeError")
        ELSE Deref(out.r, heap)

\* ------------------------------------------------------------- claims
\* C1: for a container field declared with a default d, whatever the program
\* does in place to the objects that unset reads returned and to the object it
\* passed as d, the field's stored default keeps the contents coerce(d) had at
\* the declaration, and every unset read returns those contents.
C1_DefaultSurvivesMutation ==
    /\ \A n \in ContainerAttrs :
          HasDefault(n) => heap[FieldOf(n)._default.v] = Deref(CoercedDefault(n), heap)
    /\ UnsetContainerRead =>
          heap[ev.ret.v] = Deref(CoercedDefault(ev.name), heap)

\* An unset read of a list field, made after the program has emptied both the
\* list it passed as the default and a list an earlier unset read returned.
C1_Witness ==
    /\ UnsetContainerRead
    /\ ev.kind = "List"
    /\ IsRef(decl[ev.name].d)
    /\ heap[decl[ev.name].d.v] = Val("list", <<>>)
    /\ \E id \in held \ {decl[ev.name].d.v, ev.ret.v} : heap[id] = Val("list", <<>>)
    /\ heap[ev.ret.v] = Val("list", <<IntV(1), IntV(2)>>)

\* The step is a read of an attribute that has no stored value, of a container
\* field with a default.
UnsetContainerReadStep ==
    /\ ev'.op = "read"
    /\ ev'.err = ""
    /\ ev'.kind \in ContainerKinds
    /\ storage[ev'.inst][struct[ev'.name].name] = Unset

\* C2 as stated: every unset read of a container field, of every kind, returns
\* an object equal to the stored default that is neither the stored default nor
\* an object an earlier read returned.
C2_Original ==
    [][UnsetContainerReadStep =>
          /\ heap'[ev'.ret.v] = heap[FieldOf(ev'.name)._default.v]
          /\ ev'.ret # FieldOf(ev'.name)._default
          /\ ev'.ret.v \notin held]_vars

\* C2 amended: an unset read returns an object equal to the stored default; for
\* List, Set and Dict it is a new object, neither the stored default nor one the
\* program already holds; for Tuple and FrozenSet it is the stored default itself.
C2_FreshObjectForMutableKinds ==
    [][UnsetContainerReadStep =>
          /\ heap'[ev'.ret.v] = heap[FieldOf(ev'.name)._default.v]
          /\ ev'.kind \in {"List", "Set", "Dict"} =>
                /\ ev'.ret # FieldOf(ev'.name)._default
                /\ ev'.ret.v \notin held
                /\ heap[ev'.ret.v] = Free
          /\ ev'.kind \in {"Tuple", "FrozenSet"} =>
                ev'.ret = FieldOf(ev'.name)._default]_vars

\* A second unset read of a set field: the program holds an equal set from an
\* earlier read, and the one just returned is another object.
C2_Witness ==
    /\ UnsetContainerRead
    /\ ev.kind = "Set"
    /\ \E id \in held \ {ev.ret.v} : heap[id] = heap[ev.ret.v] /\ heap[id].t = "set"

\* C10 as stated: a container field stores the very object d it was declared
\* with, func is not called at construction, and an unset read calls func once.
C10_Original ==
    /\ \A n \in ContainerAttrs :
          HasDefault(n) => FieldOf(n)._default = decl[n].d /\ decl[n].calls = 0
    /\ UnsetContainerRead => ev.ncalls = 1

\* C10 amended: the constructor calls func once and the field stores the
\* result, coerce(d), which for List, Set and Dict is an object of its own; an
\* unset read calls func once more, on the stored object, so the returned
\* contents are coerce(coerce(d)), two calls away from d, and equal to the
\* contents of coerce(d).
C10_StoresCoercedDefault ==
    /\ \A n \in ContainerAttrs :
          HasDefault(n) =>
             /\ decl[n].calls = 1
             /\ FieldOf(n).kind \in {"List", "Set", "Dict"} =>
                   FieldOf(n)._default # decl[n].d
             /\ heap[FieldOf(n)._default.v] = Deref(CoercedDefault(n), heap)
    /\ UnsetContainerRead =>
          /\ ev.ncalls = 1
          /\ decl[ev.name].calls + ev.ncalls = 2
          /\ heap[ev.ret.v] =
                Deref(Call(FieldOf(ev.name).func, FieldOf(ev.name)._default, heap), heap)
          /\ heap[ev.ret.v] = Deref(CoercedDefault(ev.name), heap)

\* An unset read of a dict field declared with a dict: the stored default is
\* another object than the declared one.
C10_Witness ==
    /\ UnsetContainerRead
    /\ ev.kind = "Dict"
    /\ IsRef(decl[ev.name].d)
    /\ FieldOf(ev.name)._default # decl[ev.name].d
    /\ heap[ev.ret.v] = Val("dict", << <<IntV(1), IntV(2)>> >>)

\* C3: a write whose coercion raises changes nothing: the error reaches the
\* caller, the instance's storage, the fields and the objects are what they
\* were, and every read gives what it would have given before.  Assigning text
\* to a Bytes or Binary field is such a write (TypeError).
C3_FailedWriteChangesNothing ==
    [][ev'.op = "write" =>
          /\ ev'.err # "" =>
                /\ storage' = storage
                /\ struct' = struct
                /\ heap' = heap
                /\ \A i \in Insts, n \in DOMAIN struct : Reading(i, n)' = Reading(i, n)
          /\ (ev'.kind \in {"Bytes", "Binary"} /\ ev'.arg.t = "str") =>
                ev'.err = "TypeError"]_vars

\* Text was assigned to a never-written attribute of a Bytes field declared
\* with b"x": the write raised and a read still gives b"x".
C3_Witness ==
    /\ ev.op = "write"
    /\ ev.err = "TypeError"
    /\ ev.kind = "Bytes"
    /\ ev.arg.t = "str"
    /\ storage[ev.inst][ev.name] = Unset
    /\ Reading(ev.inst, ev.name) = BytesV(<<120>>)

\* C4: an instance's stored value changes only by a successful write to that
\* attribute of that instance, which stores the result of one call of func on
\* the written value; a read of a set attribute returns the stored value as it
\* is, with no call of func and no look at the default.  So a read returns
\* coerce of the last value written: int("12") = 12, int(5.2) = 5,
\* bool(5) = True, bool(None) = False.
C4_ReadReturnsLastWrite ==
    [][/\ \A i \in Insts, n \in DOMAIN struct :
             storage'[i][n] # storage[i][n] =>
                ev'.op = "write" /\ ev'.inst = i /\ ev'.name = n /\ ev'.err = ""
       /\ (ev'.op = "write" /\ ev'.err = "") =>
             /\ storage'[ev'.inst][ev'.name] = Call(ev'.func, ev'.arg, heap)
             /\ ev'.ncalls = 1
       /\ (ev'.op = "read" /\ storage[ev'.inst][ev'.name] # Unset) =>
             /\ ev'.err = ""
             /\ ev'.ret = storage[ev'.inst][ev'.name]
             /\ ev'.ncalls = 0
       /\ (ev'.op = "write" /\ ev'.func.name = "int" /\ ev'.arg = StrV(<<49, 50>>)) =>
             storage'[ev'.inst][ev'.name] = IntV(12)
       /\ (ev'.op = "write" /\ ev'.func.name = "int" /\ ev'.arg = FloatV(52)) =>
             storage'[ev'.inst][ev'.name] = IntV(5)
       /\ (ev'.op = "write" /\ ev'.kind = "Boolean" /\ ev'.arg = IntV(5)) =>
             storage'[ev'.inst][ev'.name] = BoolV(TRUE)
       /\ (ev'.op = "write" /\ ev'.kind = "Boolean" /\ ev'.arg = None) =>
             storage'[ev'.inst][ev'.name] = BoolV(FALSE)]_vars

\* A read of an Integer attribute declared with default "12" (coerced to 12)
\* after a write: it returns the written 5, not the default.
C4_Witness ==
    /\ ev.op = "read"
    /\ ev.kind = "Integer"
    /\ decl[ev.name].c = StrV(<<49, 50>>)
    /\ storage[ev.inst][ev.name] = IntV(5)
    /\ ev.ret = IntV(5)

\* C5: a constructor given a default that func rejects raises that error and
\* no field comes to exist; every field that exists with a default has one that
\* func accepts, so no read raises a coercion error.
C5_InvalidDefaultFailsConstruction ==
    /\ (ev.op = "declare" /\ ev.arg # NoDefault /\ IsErr(Call(ev.func, ev.arg, heap))) =>
          /\ ev.err = Call(ev.func, ev.arg, heap).v
          /\ Declared(struct) = {}
    /\ (ev.op = "declare" /\ ev.err # "") => struct[ev.name] = Absent
    /\ \A n \in Declared(struct) : HasDefault(n) => ~IsErr(CoercedDefault(n))
    /\ ev.op = "read" => ev.err \in {"", "AttributeError"}

\* A container field was constructed with a default that is not iterable: the
\* constructor raised TypeError.
C5_Witness ==
    /\ ev.op = "declare"
    /\ ev.kind \in ContainerKinds
    /\ ev.arg = IntV(5)
    /\ ev.err = "TypeError"
    /\ struct[ev.name] = Absent

\* C6: a read raises the unset-attribute error exactly when the instance has no
\* stored value and the field's default resolves to NoDefault, which it does
\* exactly when no default was declared; a field declared with None (falsy) has
\* a default, and its unset read returns coerce(None).
C6_UnsetErrorIffNoDefault ==
    /\ \A n \in Declared(struct) :
          (FieldDefault(FieldOf(n), heap).r = NoDefault) <=> (decl[n].c = NoDefault)
    /\ ev.op = "read" =>
          ((ev.err = "AttributeError") <=>
              (/\ storage[ev.inst][ev.name] = Unset
               /\ FieldDefault(FieldOf(ev.name), heap).r = NoDefault))
    /\ (UnsetRead /\ decl[ev.name].c # NoDefault /\ ~Truthy(decl[ev.name].c)) =>
          /\ ev.err = ""
          /\ Deref(ev.ret, heap) = Deref(CoercedDefault(ev.name), heap)

\* An unset read of a Boolean field declared with None returned False.
C6_Witness ==
    /\ UnsetRead
    /\ ev.kind = "Boolean"
    /\ decl[ev.name].c = None
    /\ ev.err = ""
    /\ ev.ret = BoolV(FALSE)

\* C7: a scalar field declared with a default d stores coerce(d), from the one
\* call of func its constructor made; an unset read returns the stored value
\* without calling func.  Field(int, "12") and Integer("12") store 12.
C7_ScalarDefaultCoercedOnce ==
    /\ \A n \in ScalarAttrs :
          HasDefault(n) =>
             /\ FieldOf(n).default = CoercedDefault(n)
             /\ decl[n].calls = 1
             /\ (FieldOf(n).func.name = "int" /\ decl[n].c = StrV(<<49, 50>>)) =>
                   FieldOf(n).default = IntV(12)
    /\ (UnsetScalarRead /\ HasDefault(ev.name)) =>
          /\ ev.err = ""
          /\ ev.ncalls = 0
          /\ ev.ret = FieldOf(ev.name).default
          /\ ev.ret = CoercedDefault(ev.name)

\* The first read on an instance of a Float field declared with 5: it returned
\* the float 5.0, not the declared integer.
C7_Witness ==
    /\ UnsetScalarRead
    /\ ev.kind = "Float"
    /\ decl[ev.name].c = IntV(5)
    /\ ev.ret = FloatV(50)
    /\ \A i \in Insts : storage[i][ev.name] = Unset

\* C8: a write changes at most the stored value of the written attribute of the
\* written instance: every other attribute of every instance, the structure's
\* descriptors and fields and every object stay as they were.  A read changes
\* no stored value, no descriptor or field and no existing object.
C8_WritesAreIsolated ==
    [][/\ ev'.op \in {"read", "write", "mutate"} => struct' = struct /\ decl' = decl
       /\ ev'.op = "write" =>
             /\ \A i \in Insts, n \in DOMAIN struct :
                   (i # ev'.inst \/ n # ev'.name) => storage'[i][n] = storage[i][n]
             /\ heap' = heap
       /\ ev'.op = "read" =>
             /\ storage' = storage
             /\ \A id \in ObjIds : heap[id] # Free => heap'[id] = heap[id]]_vars

\* A successful write to attribute b of x, with a of x and a of y holding values
\* and b of y still unset.
C8_Witness ==
    /\ ev.op = "write"
    /\ ev.err = ""
    /\ ev.inst = "x"
    /\ ev.name = "b"
    /\ storage["x"]["a"] # Unset
    /\ storage["y"]["a"] # Unset
    /\ storage["y"]["b"] = Unset
    /\ storage["x"]["b"] # storage["x"]["a"]

\* C9: an attribute of an instance goes from unset to set only by a successful
\* write to it, and never back; a read, an unset read of a container default
\* included, and a failed write leave the storage as it was.
C9_UnsetToSetOnlyByWrite ==
    [][/\ \A i \in Insts, n \in DOMAIN struct :
             /\ storage[i][n] # Unset => storage'[i][n] # Unset
             /\ (storage[i][n] = Unset /\ storage'[i][n] # Unset) =>
                   ev'.op = "write" /\ ev'.inst = i /\ ev'.name = n /\ ev'.err = ""
       /\ ev'.op = "read" => storage' = storage
       /\ (ev'.op = "write" /\ ev'.err # "") => storage' = storage]_vars

\* An unset read of a list attribute returned a list, and the attribute is
\* still unset, while another attribute of the instance is set.
C9_Witness ==
    /\ UnsetContainerRead
    /\ IsRef(ev.ret)
    /\ storage[ev.inst][ev.name] = Unset
    /\ \E n \in DOMAIN struct : storage[ev.inst][n] # Unset

====
